---- MODULE Spec2Model ----
(***************************************************************************)
(* A model of etl_script.py: the relational join (join_olist_data), the    *)
(* market series fetcher (batch_fetch_sp500), the weather series fetcher   *)
(* (retry_request, batch_fetch_weather) and the enrichment merger          *)
(* (enrich_data).                                                          *)
(*                                                                         *)
(* Calendar dates are the "%Y-%m-%d" strings of the code.  Such strings    *)
(* compare (min, max, ==) exactly as the days they name, so a date is      *)
(* modelled by its day number.  A Python value that may be None (or a      *)
(* pandas NaN / NaT) is modelled as a sequence of length at most one:      *)
(* None is << >> and a present value v is << v >>.                         *)
(***************************************************************************)
EXTENDS Integers, Sequences, FiniteSets, TLC

VARIABLES
    location_dates,   \* batch_fetch_weather: the argument, a list of <<<<lat, lon>>, date>>
    location_groups,  \* batch_fetch_weather: the groups, in dict insertion order
    group_index,      \* batch_fetch_weather: position of the loop of line 252
    attempt,          \* retry_request: the loop variable of line 227
    weather_data,     \* batch_fetch_weather: the mapping being built
    net_log,          \* every requests.get and time.sleep made, in order
    wpc,              \* batch_fetch_weather: "idle", "start", "loop", "done" or "raised"
    sp_dates,         \* batch_fetch_sp500: the argument, a list of dates
    sp_source,        \* batch_fetch_sp500: what the market data source answered
    sp500_call,       \* batch_fetch_sp500: how the call ended, and the mapping returned
    spc,              \* batch_fetch_sp500: "idle", "call" or "returned"
    df_in,            \* enrich_data: the argument, the rows join_olist_data returned
    df,               \* enrich_data: the frame being worked on
    epc,              \* enrich_data: "idle", "localize", "market", "weather", "merge",
                      \*              "done" or "raised"
    order_items,      \* join_olist_data: the cleaned order lines
    orders,           \* join_olist_data: the cleaned orders
    customers,        \* join_olist_data: the cleaned customers
    geo_processed,    \* join_olist_data: one averaged coordinate per zip prefix
    joined,           \* join_olist_data: the rows returned
    jpc               \* join_olist_data: "idle", "call" or "returned"

weatherVars == <<location_dates, location_groups, group_index, attempt, weather_data,
                 net_log, wpc>>
marketVars == <<sp_dates, sp_source, sp500_call, spc>>
enrichVars == <<df_in, df, epc>>
joinVars == <<order_items, orders, customers, geo_processed, joined, jpc>>

vars == <<weatherVars, marketVars, enrichVars, joinVars>>

----------------------------------------------------------------------------
(* Bounds of the model *)

MaxDate == 3
MaxPairs == 2

Dates == 1..MaxDate

(* Coordinates the inputs are drawn from: an interior point, a point on    *)
(* both range limits, a latitude out of range and a longitude out of range *)
Coordinates == {<<10, 20>>, <<-90, 180>>, <<91, 0>>, <<0, -181>>}

----------------------------------------------------------------------------
(* Values *)

None == <<>>
Some(v) == <<v>>

Range(s) == {s[i] : i \in DOMAIN s}

RECURSIVE SeqsUpTo(_, _)
SeqsUpTo(S, n) ==
    IF n = 0 THEN {<<>>}
    ELSE LET shorter == SeqsUpTo(S, n - 1)
         IN  shorter \cup {Append(s, x) : s \in shorter, x \in S}

min(s) == CHOOSE x \in Range(s) : \A y \in Range(s) : x <= y
max(s) == CHOOSE x \in Range(s) : \A y \in Range(s) : x >= y

RECURSIVE Ascending(_)
Ascending(S) ==
    IF S = {} THEN <<>>
    ELSE LET least == CHOOSE x \in S : \A y \in S : x <= y
         IN  <<least>> \o Ascending(S \ {least})

----------------------------------------------------------------------------
(* Constants of the program *)

VALID_LAT_RANGE == <<-90, 90>>
VALID_LON_RANGE == <<-180, 180>>
Retries == 3
Delay == 5

validate_coordinates(lat, lon) ==
    /\ VALID_LAT_RANGE[1] <= lat /\ lat <= VALID_LAT_RANGE[2]
    /\ VALID_LON_RANGE[1] <= lon /\ lon <= VALID_LON_RANGE[2]

----------------------------------------------------------------------------
(* The weather source *)

(* What the archive holds for a day *)
MeanTempOn(d) == 20 + d
PrecipitationOn(d) == d

(* The well-formed "daily" objects the source may answer a request for     *)
(* [start_date, end_date] with, two lists aligned by index to the days:    *)
(* the readings of any of the days of the range, in order, or every day of *)
(* the range with null for each reading of a variable the archive lacks.   *)
Daily(S, NoTemp, NoPrecip) ==
    LET time == Ascending(S)
    IN  [ time |-> time,
          temperature_2m_mean |->
              [i \in DOMAIN time |->
                  IF time[i] \in NoTemp THEN None ELSE Some(MeanTempOn(time[i]))],
          precipitation_sum |->
              [i \in DOMAIN time |->
                  IF time[i] \in NoPrecip THEN None ELSE Some(PrecipitationOn(time[i]))] ]

DailyObjects(start_date, end_date) ==
    {Daily(S, {}, {}) : S \in SUBSET (start_date..end_date)}
    \cup {Daily(start_date..end_date, start_date..end_date, {}),
          Daily(start_date..end_date, {}, start_date..end_date)}

(* The bodies of a response with a success status: text that is not JSON,  *)
(* JSON without a "daily" key, a "daily" object without its lists, or a    *)
(* well-formed one.                                                        *)
Bodies(start_date, end_date) ==
    {[kind |-> "not_json"], [kind |-> "no_daily"], [kind |-> "bad_daily"]}
    \cup {[kind |-> "daily", daily |-> d] : d \in DailyObjects(start_date, end_date)}

----------------------------------------------------------------------------
(* batch_fetch_weather *)

RECURSIVE GroupFrom(_, _)
GroupFrom(pairs, groups) ==
    IF pairs = <<>> THEN groups
    ELSE LET coord == Head(pairs)[1]
             date  == Head(pairs)[2]
         IN  IF \E i \in DOMAIN groups : groups[i].coord = coord
             THEN LET i == CHOOSE i \in DOMAIN groups : groups[i].coord = coord
                  IN  GroupFrom(Tail(pairs),
                                [groups EXCEPT ![i].dates = Append(@, date)])
             ELSE GroupFrom(Tail(pairs),
                            Append(groups, [coord |-> coord, dates |-> <<date>>]))

GroupByLocation(pairs) == GroupFrom(pairs, <<>>)

Params(group) ==
    [latitude   |-> group.coord[1],
     longitude  |-> group.coord[2],
     start_date |-> min(group.dates),
     end_date   |-> max(group.dates)]

(* A variant that records every day of the response, requested or not.     *)
RECURSIVE RecordFrom_AnyDate(_, _, _, _, _)
RecordFrom_AnyDate(data, lat, lon, dates, daily) ==
    IF daily.time = <<>> THEN data
    ELSE LET key == <<lat, lon, Head(daily.time)>>
             entry == [mean_temp |-> Head(daily.temperature_2m_mean),
                       precipitation |-> Head(daily.precipitation_sum)]
         IN  RecordFrom_AnyDate([k \in DOMAIN data \cup {key} |->
                                    IF k = key THEN entry ELSE data[k]],
                                lat, lon, dates,
                                [time |-> Tail(daily.time),
                                 temperature_2m_mean |-> Tail(daily.temperature_2m_mean),
                                 precipitation_sum |-> Tail(daily.precipitation_sum)])

RECURSIVE RecordFrom(_, _, _, _, _)
RecordFrom(data, lat, lon, dates, daily) ==
    IF daily.time = <<>> THEN data
    ELSE LET date == Head(daily.time)
             rest == [time |-> Tail(daily.time),
                      temperature_2m_mean |-> Tail(daily.temperature_2m_mean),
                      precipitation_sum |-> Tail(daily.precipitation_sum)]
             key  == <<lat, lon, date>>
             entry == [mean_temp |-> Head(daily.temperature_2m_mean),
                       precipitation |-> Head(daily.precipitation_sum)]
         IN  IF date \in Range(dates)
             THEN RecordFrom([k \in DOMAIN data \cup {key} |->
                                 IF k = key THEN entry ELSE data[k]],
                             lat, lon, dates, rest)
             ELSE RecordFrom(data, lat, lon, dates, rest)

CurrentGroup == location_groups[group_index]

InLoop == wpc = "loop" /\ group_index <= Len(location_groups)

GetEvent(params, response) == [op |-> "get", params |-> params, response |-> response]
SleepEvent(seconds) == [op |-> "sleep", seconds |-> seconds]

BatchFetchWeatherGroup ==
    /\ wpc = "start"
    /\ location_groups' = GroupByLocation(location_dates)
    /\ group_index' = 1
    /\ attempt' = 0
    /\ weather_data' = <<>>
    /\ wpc' = "loop"
    /\ UNCHANGED <<location_dates, net_log, marketVars, enrichVars, joinVars>>

SkipInvalidGroup ==
    /\ InLoop
    /\ ~validate_coordinates(CurrentGroup.coord[1], CurrentGroup.coord[2])
    /\ group_index' = group_index + 1
    /\ UNCHANGED <<location_dates, location_groups, attempt, weather_data, net_log, wpc,
                   marketVars, enrichVars, joinVars>>

(* A variant whose loop runs once more than `retries`.                     *)
AttemptFails_ExtraAttempt ==
    /\ InLoop
    /\ validate_coordinates(CurrentGroup.coord[1], CurrentGroup.coord[2])
    /\ net_log' = net_log \o <<GetEvent(Params(CurrentGroup), [kind |-> "error"]),
                                SleepEvent(Delay)>>
    /\ IF attempt + 1 < Retries + 1
       THEN /\ attempt' = attempt + 1
            /\ group_index' = group_index
       ELSE /\ attempt' = 0
            /\ group_index' = group_index + 1
    /\ UNCHANGED <<location_dates, location_groups, weather_data, wpc,
                   marketVars, enrichVars, joinVars>>

(* A variant that sleeps between attempts only, not after the last one.    *)
AttemptFails_NoFinalSleep ==
    /\ InLoop
    /\ validate_coordinates(CurrentGroup.coord[1], CurrentGroup.coord[2])
    /\ IF attempt + 1 < Retries
       THEN /\ net_log' = net_log \o <<GetEvent(Params(CurrentGroup), [kind |-> "error"]),
                                        SleepEvent(Delay)>>
            /\ attempt' = attempt + 1
            /\ group_index' = group_index
       ELSE /\ net_log' = Append(net_log, GetEvent(Params(CurrentGroup), [kind |-> "error"]))
            /\ attempt' = 0
            /\ group_index' = group_index + 1
    /\ UNCHANGED <<location_dates, location_groups, weather_data, wpc,
                   marketVars, enrichVars, joinVars>>

(* requests.get or raise_for_status raises (lines 230-231): the except     *)
(* clause logs and sleeps; after the last attempt retry_request returns    *)
(* None and the loop of batch_fetch_weather goes on to the next group.     *)
AttemptFails ==
    /\ InLoop
    /\ validate_coordinates(CurrentGroup.coord[1], CurrentGroup.coord[2])
    /\ \E error \in {"network_error", "http_error"} :
          net_log' = net_log \o <<GetEvent(Params(CurrentGroup), [kind |-> "error"]),
                                   SleepEvent(Delay)>>
    /\ IF attempt + 1 < Retries
       THEN /\ attempt' = attempt + 1
            /\ group_index' = group_index
       ELSE /\ attempt' = 0
            /\ group_index' = group_index + 1
    /\ UNCHANGED <<location_dates, location_groups, weather_data, wpc,
                   marketVars, enrichVars, joinVars>>

AttemptReturns ==
    /\ InLoop
    /\ validate_coordinates(CurrentGroup.coord[1], CurrentGroup.coord[2])
    /\ \E body \in Bodies(Params(CurrentGroup).start_date, Params(CurrentGroup).end_date) :
          /\ net_log' = Append(net_log, GetEvent(Params(CurrentGroup), body))
          /\ IF body.kind \in {"not_json", "bad_daily"}
             THEN /\ wpc' = "raised"
                  /\ UNCHANGED <<weather_data, group_index, attempt>>
             ELSE /\ weather_data' =
                        IF body.kind = "daily"
                        THEN RecordFrom(weather_data, CurrentGroup.coord[1],
                                        CurrentGroup.coord[2], CurrentGroup.dates, body.daily)
                        ELSE weather_data
                  /\ group_index' = group_index + 1
                  /\ attempt' = 0
                  /\ wpc' = wpc
    /\ UNCHANGED <<location_dates, location_groups, marketVars, enrichVars, joinVars>>

BatchFetchWeatherReturn ==
    /\ wpc = "loop"
    /\ group_index > Len(location_groups)
    /\ wpc' = "done"
    /\ UNCHANGED <<location_dates, location_groups, group_index, attempt, weather_data,
                   net_log, marketVars, enrichVars, joinVars>>

WeatherNext ==
    \/ BatchFetchWeatherGroup
    \/ SkipInvalidGroup
    \/ AttemptFails
    \/ AttemptReturns
    \/ BatchFetchWeatherReturn

(* A component that a specification does not run stays idle. *)
WeatherIdle ==
    /\ location_dates = <<>>
    /\ location_groups = <<>>
    /\ group_index = 1
    /\ attempt = 0
    /\ weather_data = <<>>
    /\ net_log = <<>>
    /\ wpc = "idle"

MarketIdle ==
    /\ sp_dates = <<>>
    /\ sp_source = [kind |-> "none"]
    /\ sp500_call = [outcome |-> "none"]
    /\ spc = "idle"

EnrichIdle ==
    /\ df_in = <<>>
    /\ df = <<>>
    /\ epc = "idle"

JoinIdle ==
    /\ order_items = <<>>
    /\ orders = <<>>
    /\ customers = <<>>
    /\ geo_processed = <<>>
    /\ joined = <<>>
    /\ jpc = "idle"

(* batch_fetch_weather called on any list of at most MaxPairs pairs *)
InitWeather ==
    /\ location_dates \in SeqsUpTo(Coordinates \X Dates, MaxPairs)
    /\ location_groups = <<>>
    /\ group_index = 1
    /\ attempt = 0
    /\ weather_data = <<>>
    /\ net_log = <<>>
    /\ wpc = "start"
    /\ MarketIdle /\ EnrichIdle /\ JoinIdle

SpecWeather == InitWeather /\ [][WeatherNext]_vars

----------------------------------------------------------------------------
(* Properties of batch_fetch_weather *)

IsGet(e) == e.op = "get"
Failed(e) == e.response.kind = "error"

GetsFor(c) ==
    SelectSeq(net_log, LAMBDA e : IsGet(e) /\ e.params.latitude = c[1]
                                           /\ e.params.longitude = c[2])

RequestedCoordinates == {p[1] : p \in Range(location_dates)}
RequestedDates(c) == {p[2] : p \in {q \in Range(location_dates) : q[1] = c}}
InRange(c) == -90 <= c[1] /\ c[1] <= 90 /\ -180 <= c[2] /\ c[2] <= 180
KeysOf(c) == {k \in DOMAIN weather_data : k[1] = c[1] /\ k[2] = c[2]}

WeatherTerminated == wpc \in {"done", "raised"}

(* C1: a coordinate whose request fails on attempts 1 and 2 and succeeds   *)
(* on attempt 3 gets exactly 3 attempts and an entry for every requested   *)
(* date the response holds; a coordinate whose request fails 3 times in a  *)
(* row gets exactly 3 attempts, never a 4th, and no entry at all.          *)
C1_RetryOutcome ==
    \A c \in Coordinates :
        LET g == GetsFor(c)
        IN  /\ Len(g) <= 3
            /\ (Len(g) >= 3 /\ Failed(g[1]) /\ Failed(g[2]) /\ g[3].response.kind = "daily")
                  => /\ Len(g) = 3
                     /\ \A d \in RequestedDates(c) \cap Range(g[3].response.daily.time) :
                            <<c[1], c[2], d>> \in DOMAIN weather_data
            /\ (Len(g) >= 3 /\ Failed(g[1]) /\ Failed(g[2]) /\ Failed(g[3]))
                  => /\ Len(g) = 3
                     /\ KeysOf(c) = {}

C1_Witness ==
    /\ wpc = "done"
    /\ \E c1, c2 \in Coordinates :
          /\ Len(GetsFor(c1)) = 3
          /\ Failed(GetsFor(c1)[1]) /\ Failed(GetsFor(c1)[2])
          /\ GetsFor(c1)[3].response.kind = "daily"
          /\ KeysOf(c1) # {}
          /\ Len(GetsFor(c2)) = 3
          /\ \A i \in 1..3 : Failed(GetsFor(c2)[i])

(* One retry sequence: one to three attempts, all but the last failed.     *)
OneRetrySequence(g) ==
    /\ Len(g) >= 1
    /\ Len(g) <= 3
    /\ \A i \in 1..(Len(g) - 1) : Failed(g[i])

(* Every request asks for an in-range coordinate of the input and for      *)
(* [min, max] of the dates requested for it.                               *)
RangeRequestsOnly ==
    \A i \in DOMAIN net_log :
        IsGet(net_log[i]) =>
            LET c == <<net_log[i].params.latitude, net_log[i].params.longitude>>
            IN  /\ c \in RequestedCoordinates
                /\ InRange(c)
                /\ \A d \in RequestedDates(c) :
                      /\ net_log[i].params.start_date <= d
                      /\ d <= net_log[i].params.end_date
                /\ net_log[i].params.start_date \in RequestedDates(c)
                /\ net_log[i].params.end_date \in RequestedDates(c)

(* A call that returns has run exactly one retry sequence for each         *)
(* distinct in-range coordinate of the input and none for the others; a    *)
(* call that has not returned has run at most one for each.                *)
OneRetrySequencePerCoordinateOnReturn ==
    /\ RangeRequestsOnly
    /\ \A c \in RequestedCoordinates :
          /\ GetsFor(c) # <<>> => (InRange(c) /\ OneRetrySequence(GetsFor(c)))
          /\ (wpc = "done" /\ InRange(c)) => GetsFor(c) # <<>>

(* C2 (as claimed): whatever the input and whatever the source answers,    *)
(* once batch_fetch_weather has ended it has run exactly one retry         *)
(* sequence for each distinct in-range coordinate of the input, asking for *)
(* [min, max] of the dates requested for it, and has sent nothing for a    *)
(* coordinate out of range.                                                *)
C2_OneRangeRequestPerCoordinate ==
    /\ RangeRequestsOnly
    /\ WeatherTerminated =>
          \A c \in RequestedCoordinates :
              IF InRange(c) THEN OneRetrySequence(GetsFor(c)) ELSE GetsFor(c) = <<>>

(* C5 (as claimed): batch_fetch_weather never raises to its caller.        *)
C5_NeverRaises == wpc # "raised"

(* C8: every key of the mapping has a coordinate in range, a date that was *)
(* requested for that very coordinate, and a date that a successful        *)
(* response for that coordinate holds.                                     *)
C8_KeysRequestedAndAnswered ==
    \A k \in DOMAIN weather_data :
        LET c == <<k[1], k[2]>>
            g == GetsFor(c)
        IN  /\ InRange(c)
            /\ <<c, k[3]>> \in Range(location_dates)
            /\ \E i \in DOMAIN g :
                  /\ g[i].response.kind = "daily"
                  /\ k[3] \in Range(g[i].response.daily.time)

C8_Witness ==
    \E c \in RequestedCoordinates :
        /\ KeysOf(c) # {}
        /\ \E i \in DOMAIN GetsFor(c) :
              /\ GetsFor(c)[i].response.kind = "daily"
              /\ \E d \in Range(GetsFor(c)[i].response.daily.time) :
                    /\ GetsFor(c)[i].params.start_date < d
                    /\ d < GetsFor(c)[i].params.end_date
                    /\ d \notin RequestedDates(c)
                    /\ <<c[1], c[2], d>> \notin DOMAIN weather_data

(* C10: the fetch ends after at most 3 attempts per distinct in-range      *)
(* coordinate, the attempts of one coordinate are not interleaved with     *)
(* another's, and a sleep of the fixed delay follows every failed attempt, *)
(* the last one of a group included.                                       *)
WeatherStepsLeft ==
    CASE wpc = "start" -> 3 * Len(location_dates) + 2
      [] wpc = "loop"  -> 3 * (Len(location_groups) + 1 - group_index) - attempt + 1
      [] OTHER         -> 0

Gets == SelectSeq(net_log, IsGet)
CoordinateOf(e) == <<e.params.latitude, e.params.longitude>>

C10_Bounded ==
    /\ Len(Gets) <= 3 * Cardinality({c \in RequestedCoordinates : InRange(c)})
    /\ LET g == Gets
       IN  \A i, k \in DOMAIN g :
              (i < k /\ CoordinateOf(g[i]) = CoordinateOf(g[k]))
                 => CoordinateOf(g[k - 1]) = CoordinateOf(g[i])
    /\ \A i \in DOMAIN net_log :
          /\ (IsGet(net_log[i]) /\ Failed(net_log[i]))
                => (i + 1 \in DOMAIN net_log /\ net_log[i + 1] = [op |-> "sleep", seconds |-> 5])
          /\ ~IsGet(net_log[i])
                => (i > 1 /\ IsGet(net_log[i - 1]) /\ Failed(net_log[i - 1]))
    /\ WeatherTerminated \/ ENABLED WeatherNext

----------------------------------------------------------------------------
(* batch_fetch_sp500 *)

MaxDates == 3

(* The closing price of the index on a trading day *)
ClosePriceOn(d) == 5000 + d

(* What the market data source may answer a request for [min, max] of the  *)
(* dates with: an error, or the closing prices of the trading days of the  *)
(* range (of none of them: an empty history).  With no dates min() raises  *)
(* before the source is asked.                                             *)
MarketAnswers(dates) ==
    IF dates = <<>> THEN {[kind |-> "not_called"]}
    ELSE {[kind |-> "error"]}
         \cup {[kind |-> "history", close |-> [d \in S |-> ClosePriceOn(d)]]
                 : S \in SUBSET (min(dates)..max(dates))}

EmptyMap == <<>>

Put(map, key, value) == [k \in DOMAIN map \cup {key} |-> IF k = key THEN value ELSE map[k]]

(* The loop of lines 205-210, over the dates in the order given *)
RECURSIVE FillFrom(_, _, _, _)
FillFrom(dates, sp500_data, last_price, date_price_map) ==
    IF dates = <<>> THEN date_price_map
    ELSE LET date == Head(dates)
             price == IF date \in DOMAIN sp500_data THEN Some(sp500_data[date])
                      ELSE last_price
         IN  FillFrom(Tail(dates), sp500_data, price, Put(date_price_map, date, price))

Returned(value) == [outcome |-> "returned", value |-> value]
Raised == [outcome |-> "raised"]

(* A variant without the try/except of lines 189 and 212-214 *)
batch_fetch_sp500_NoExcept(dates, source) ==
    IF dates = <<>> \/ source.kind = "error" THEN Raised
    ELSE IF DOMAIN source.close = {} THEN Returned(EmptyMap)
    ELSE Returned(FillFrom(dates, source.close, None, EmptyMap))

batch_fetch_sp500(dates, source) ==
    IF dates = <<>> \/ source.kind = "error" THEN Returned(EmptyMap)
    ELSE IF DOMAIN source.close = {} THEN Returned(EmptyMap)
    ELSE Returned(FillFrom(dates, source.close, None, EmptyMap))

BatchFetchSp500 ==
    /\ spc = "call"
    /\ \E source \in MarketAnswers(sp_dates) :
          /\ sp_source' = source
          /\ sp500_call' = batch_fetch_sp500(sp_dates, source)
    /\ spc' = "returned"
    /\ UNCHANGED <<sp_dates, weatherVars, enrichVars, joinVars>>

MarketNext == BatchFetchSp500

(* batch_fetch_sp500 called on any list of at most MaxDates dates *)
InitMarket ==
    /\ sp_dates \in SeqsUpTo(Dates, MaxDates)
    /\ sp_source = [kind |-> "none"]
    /\ sp500_call = [outcome |-> "none"]
    /\ spc = "call"
    /\ WeatherIdle /\ EnrichIdle /\ JoinIdle

SpecMarket == InitMarket /\ [][MarketNext]_vars

----------------------------------------------------------------------------
(* Properties of batch_fetch_sp500 *)

FetchedSeries == sp_source.close
HasHistory ==
    /\ spc = "returned"
    /\ sp_source.kind = "history"
    /\ DOMAIN FetchedSeries # {}

(* C3 (as claimed): in whatever order the dates are passed, a requested    *)
(* date without an entry in the fetched series gets what a scan of the     *)
(* requested dates in ascending order carries forward to it: the price of  *)
(* the latest requested date before it that has an entry, if there is one. *)
PricedBefore(date) == {e \in Range(sp_dates) \cap DOMAIN FetchedSeries : e < date}

C3_ForwardFillInDateOrder ==
    HasHistory =>
        \A date \in Range(sp_dates) \ DOMAIN FetchedSeries :
            sp500_call.value[date] =
                IF PricedBefore(date) = {} THEN <<>>
                ELSE <<FetchedSeries[CHOOSE e \in PricedBefore(date) :
                                        \A f \in PricedBefore(date) : f <= e]>>

(* C4 (as claimed): after a fetch with a non-empty history a requested     *)
(* date before the first priced date is no key of the mapping, and every   *)
(* requested date on or after it is a key mapped to a price.               *)
C4_KeysFromFirstPricedDate ==
    HasHistory =>
        \A date \in Range(sp_dates) :
            IF \A e \in DOMAIN FetchedSeries : date < e
            THEN date \notin DOMAIN sp500_call.value
            ELSE /\ date \in DOMAIN sp500_call.value
                 /\ sp500_call.value[date] # <<>>

----------------------------------------------------------------------------
(* enrich_data *)

MaxRecords == 2

(* The naive local timestamps the rows are drawn from.  In the zone of     *)
(* TIMEZONE a day starts 3 hours after the UTC day, and the hour after     *)
(* midnight of a day on which daylight saving time starts does not exist.  *)
UtcOffsetHours == 3
At(day, hour) == [day |-> day, hour |-> hour]
LocalTimestamps == {At(1, 12), At(1, 22), At(1, 0)}
Nonexistent == {At(1, 0)}

EnrichCoordinates == {<<10, 20>>, <<91, 0>>}

JoinedRow(id, purchase, delivered, coord) ==
    [order_id                      |-> Some(id),
     seller_id                     |-> Some("s1"),
     order_purchase_timestamp      |-> Some(purchase),
     order_delivered_customer_date |-> Some(delivered),
     total_order_value             |-> Some(60),
     delivery_location_latitude    |-> Some(coord[1]),
     delivery_location_longitude   |-> Some(coord[2])]

JoinedFrames ==
    UNION { { [i \in 1..n |-> JoinedRow(i, f[i][1], f[i][2], f[i][3])]
                : f \in [1..n -> LocalTimestamps \X LocalTimestamps \X EnrichCoordinates] }
          : n \in 0..MaxRecords }

(* .dt.tz_localize(TIMEZONE, ambiguous='NaT', nonexistent='NaT')           *)
(* .dt.tz_convert('UTC') on one value                                      *)
to_utc(t) ==
    IF t = None \/ t[1] \in Nonexistent THEN None
    ELSE LET h == t[1].hour + UtcOffsetHours
         IN  Some(At(t[1].day + (h \div 24), h % 24))

(* .strftime("%Y-%m-%d") on a timestamp that is not NaT *)
strftime(t) == t[1].day

dropna(frame, subset) == SelectSeq(frame, LAMBDA row : \A col \in subset : row[col] # None)

RECURSIVE unique(_)
unique(s) ==
    IF s = <<>> THEN <<>>
    ELSE LET rest == unique(SubSeq(s, 1, Len(s) - 1))
         IN  IF s[Len(s)] \in Range(rest) THEN rest ELSE Append(rest, s[Len(s)])

WithColumn(row, col, value) ==
    [c \in DOMAIN row \cup {col} |-> IF c = col THEN value ELSE row[c]]

(* Series.map(dict): a key that is missing gives NaN *)
MapGet(map, key) == IF key \in DOMAIN map THEN map[key] ELSE None

(* weather_data.get(x, {}).get(field) *)
WeatherGet(data, key, field) == IF key \in DOMAIN data THEN data[key][field] ELSE None

weather_key(row) ==
    <<row.delivery_location_latitude[1], row.delivery_location_longitude[1],
      strftime(row.order_delivered_customer_date)>>

(* A variant that forgets one of the two weather columns *)
final_fields_NoPrecipitation ==
    {"order_id", "seller_id", "order_purchase_timestamp", "order_delivered_customer_date",
     "total_order_value", "market_sentiment_on_purchase_date",
     "delivery_location_latitude", "delivery_location_longitude",
     "delivery_date_mean_temp"}

final_fields ==
    {"order_id", "seller_id", "order_purchase_timestamp", "order_delivered_customer_date",
     "total_order_value", "market_sentiment_on_purchase_date",
     "delivery_location_latitude", "delivery_location_longitude",
     "delivery_date_mean_temp", "delivery_date_precipitation_sum"}

(* lines 289-297 *)
EnrichLocalize ==
    /\ epc = "localize"
    /\ df' = dropna([i \in DOMAIN df |->
                        [df[i] EXCEPT !.order_purchase_timestamp = to_utc(@),
                                      !.order_delivered_customer_date = to_utc(@)]],
                    {"order_purchase_timestamp", "order_delivered_customer_date"})
    /\ epc' = "market"
    /\ UNCHANGED <<df_in, weatherVars, marketVars, joinVars>>

(* lines 299-303: an exception of the call would leave enrich_data *)
EnrichFetchMarket ==
    /\ epc = "market"
    /\ LET purchase_dates == unique([i \in DOMAIN df |->
                                        strftime(df[i].order_purchase_timestamp)])
       IN  \E source \in MarketAnswers(purchase_dates) :
              LET call == batch_fetch_sp500(purchase_dates, source)
              IN  /\ sp_dates' = purchase_dates
                  /\ sp_source' = source
                  /\ sp500_call' = call
                  /\ spc' = "returned"
                  /\ IF call.outcome = "raised"
                     THEN /\ epc' = "raised"
                          /\ df' = df
                     ELSE /\ epc' = "weather"
                          /\ df' = [i \in DOMAIN df |->
                                      WithColumn(df[i], "market_sentiment_on_purchase_date",
                                                 MapGet(call.value,
                                                        strftime(df[i].order_purchase_timestamp)))]
    /\ UNCHANGED <<df_in, weatherVars, joinVars>>

(* lines 305-307: the call of batch_fetch_weather *)
EnrichCallWeather ==
    /\ epc = "weather"
    /\ wpc = "idle"
    /\ location_dates' = [i \in DOMAIN df |->
                            <<<<df[i].delivery_location_latitude[1],
                                df[i].delivery_location_longitude[1]>>,
                              strftime(df[i].order_delivered_customer_date)>>]
    /\ wpc' = "start"
    /\ UNCHANGED <<location_groups, group_index, attempt, weather_data, net_log,
                   marketVars, enrichVars, joinVars>>

(* an exception of batch_fetch_weather leaves enrich_data, which has no try *)
EnrichWeatherRaised ==
    /\ epc = "weather"
    /\ wpc = "raised"
    /\ epc' = "raised"
    /\ UNCHANGED <<df_in, df, weatherVars, marketVars, joinVars>>

(* lines 310-329.  On a frame without rows DataFrame.apply(axis=1) gives a *)
(* frame, not a series, and its assignment to one column (line 310) raises *)
(* or not with the version of pandas.                                      *)
EnrichMerge ==
    /\ epc = "weather"
    /\ wpc = "done"
    /\ IF df = <<>>
       THEN /\ epc' \in {"done", "raised"}
            /\ df' = df
       ELSE /\ epc' = "done"
            /\ df' = dropna([i \in DOMAIN df |->
                               WithColumn(
                                   WithColumn(df[i], "delivery_date_mean_temp",
                                              WeatherGet(weather_data, weather_key(df[i]),
                                                         "mean_temp")),
                                   "delivery_date_precipitation_sum",
                                   WeatherGet(weather_data, weather_key(df[i]),
                                              "precipitation"))],
                            final_fields)
    /\ UNCHANGED <<df_in, weatherVars, marketVars, joinVars>>

EnrichNext ==
    \/ EnrichLocalize
    \/ EnrichFetchMarket
    \/ EnrichCallWeather
    \/ BatchFetchWeatherGroup
    \/ SkipInvalidGroup
    \/ AttemptFails
    \/ AttemptReturns
    \/ BatchFetchWeatherReturn
    \/ EnrichWeatherRaised
    \/ EnrichMerge

(* enrich_data called on any frame of at most MaxRecords joined rows *)
InitEnrich ==
    /\ df_in \in JoinedFrames
    /\ df = df_in
    /\ epc = "localize"
    /\ WeatherIdle /\ MarketIdle /\ JoinIdle

SpecEnrich == InitEnrich /\ [][EnrichNext]_vars

----------------------------------------------------------------------------
(* Properties of enrich_data *)

EnrichTerminated == epc \in {"done", "raised"}

MarketFailed ==
    \/ sp_dates = <<>>
    \/ sp_source.kind = "error"
    \/ (sp_source.kind = "history" /\ DOMAIN sp_source.close = {})

(* C6: whatever the dates (none included) and whatever the source does,    *)
(* error or empty history, batch_fetch_sp500 returns the empty mapping and *)
(* raises nothing, and enrich_data goes on to the weather fetch and the    *)
(* merge: it never ends at the market step.                                *)
C6_AfterMarket ==
    /\ spc = "returned" =>
          /\ sp500_call.outcome = "returned"
          /\ MarketFailed => sp500_call.value = <<>>
          /\ epc # "market"
          /\ epc = "raised" => (wpc = "raised" \/ (wpc = "done" /\ df = <<>>))
    /\ EnrichTerminated \/ ENABLED EnrichNext

C6_MarketFailureAbsorbed ==
    /\ []C6_AfterMarket
    /\ [][epc = "market" => epc' = "weather"]_vars
    /\ [][(epc = "weather" /\ wpc = "done" /\ df # <<>>) => epc' = "done"]_vars

C6_Witness ==
    /\ epc = "done"
    /\ sp_dates # <<>>
    /\ sp_source.kind = "error"
    /\ sp500_call = [outcome |-> "returned", value |-> <<>>]
    /\ \E i \in DOMAIN net_log : net_log[i].op = "get"
    /\ weather_data # <<>>

(* C7: every row enrich_data returns has its ten fields, none of them      *)
(* null, and a joined row is returned exactly when both its timestamps     *)
(* localize, the market mapping has a price for its purchase date and the  *)
(* weather mapping has an entry with both readings for its coordinate and  *)
(* delivered date.                                                         *)
TenFields ==
    {"order_id", "seller_id", "order_purchase_timestamp", "order_delivered_customer_date",
     "total_order_value", "market_sentiment_on_purchase_date",
     "delivery_location_latitude", "delivery_location_longitude",
     "delivery_date_mean_temp", "delivery_date_precipitation_sum"}

Localizes(t) == t # At(1, 0)
UtcDay(t) == IF t.hour >= 21 THEN t.day + 1 ELSE t.day
PurchaseDay(row) == UtcDay(row.order_purchase_timestamp[1])
WeatherKeyOf(row) ==
    <<row.delivery_location_latitude[1], row.delivery_location_longitude[1],
      UtcDay(row.order_delivered_customer_date[1])>>

HasPrice(row) ==
    /\ PurchaseDay(row) \in DOMAIN sp500_call.value
    /\ sp500_call.value[PurchaseDay(row)] # <<>>
HasWeather(row) ==
    /\ WeatherKeyOf(row) \in DOMAIN weather_data
    /\ weather_data[WeatherKeyOf(row)].mean_temp # <<>>
    /\ weather_data[WeatherKeyOf(row)].precipitation # <<>>
Resolved(row) ==
    /\ Localizes(row.order_purchase_timestamp[1])
    /\ Localizes(row.order_delivered_customer_date[1])
    /\ HasPrice(row)
    /\ HasWeather(row)

C7_OnlyFullyEnrichedRows ==
    epc = "done" =>
        /\ \A i \in DOMAIN df :
              /\ DOMAIN df[i] = TenFields
              /\ \A col \in TenFields : df[i][col] # <<>>
        /\ \A i, j \in DOMAIN df : df[i].order_id = df[j].order_id => i = j
        /\ \A k \in DOMAIN df_in :
              Resolved(df_in[k]) <=>
                  \E i \in DOMAIN df :
                      /\ df[i].order_id = df_in[k].order_id
                      /\ df[i].market_sentiment_on_purchase_date
                            = sp500_call.value[PurchaseDay(df_in[k])]
                      /\ df[i].delivery_date_mean_temp
                            = weather_data[WeatherKeyOf(df_in[k])].mean_temp
                      /\ df[i].delivery_date_precipitation_sum
                            = weather_data[WeatherKeyOf(df_in[k])].precipitation

C7_Witness ==
    /\ epc = "done"
    /\ Len(df) = 1
    /\ \E k \in DOMAIN df_in :
          /\ HasWeather(df_in[k])
          /\ Localizes(df_in[k].order_purchase_timestamp[1])
          /\ PurchaseDay(df_in[k]) \in DOMAIN sp500_call.value
          /\ sp500_call.value[PurchaseDay(df_in[k])] = <<>>
          /\ \A i \in DOMAIN df : df[i].order_id # df_in[k].order_id

----------------------------------------------------------------------------
(* join_olist_data *)

MaxLines == 2

(* A frame is a sequence of rows; a row maps its columns to cells, each a  *)
(* value or null.  Identifiers, zip prefixes and timestamps are numbers.   *)
OrderIds == {1, 2}
SellerIds == {1, 2}
CustomerIds == {1, 2}
ZipPrefixes == {1, 2}
Prices == {50, 70}
FreightValues == {10}

OrderLine(item, order, seller, price, freight) ==
    [order_id      |-> Some(order),
     order_item_id |-> Some(item),
     seller_id     |-> Some(seller),
     price         |-> Some(price),
     freight_value |-> Some(freight)]

Order(order, customer) ==
    [order_id                      |-> Some(order),
     customer_id                   |-> Some(customer),
     order_purchase_timestamp      |-> Some(10 + order),
     order_delivered_customer_date |-> Some(20 + order)]

Customer(customer, zip) ==
    [customer_id |-> Some(customer), customer_zip_code_prefix |-> Some(zip)]

Geolocation(zip) ==
    [geolocation_zip_code_prefix |-> Some(zip),
     geolocation_lat             |-> Some(-20 - zip),
     geolocation_lng             |-> Some(-40 - zip)]

OrderColumns ==
    {"order_id", "customer_id", "order_purchase_timestamp", "order_delivered_customer_date"}
CustomerColumns == {"customer_id", "customer_zip_code_prefix"}
GeolocationColumns ==
    {"geolocation_zip_code_prefix", "geolocation_lat", "geolocation_lng"}

(* The cleaned inputs: order lines numbered within the frame, and frames   *)
(* that hold at most one row for a key (orders by order_id, customers by   *)
(* customer_id, averaged coordinates by zip prefix).                       *)
OrderItemFrames ==
    UNION { { [i \in 1..n |-> OrderLine(i, f[i][1], f[i][2], f[i][3], f[i][4])]
                : f \in [1..n -> OrderIds \X SellerIds \X Prices \X FreightValues] }
          : n \in 0..MaxLines }

OrderFrames ==
    { [i \in DOMAIN Ascending(S) |-> Order(Ascending(S)[i], c[Ascending(S)[i]])]
        : <<S, c>> \in (SUBSET OrderIds) \X [OrderIds -> CustomerIds] }

CustomerFrames ==
    { [i \in DOMAIN Ascending(S) |-> Customer(Ascending(S)[i], z[Ascending(S)[i]])]
        : <<S, z>> \in (SUBSET CustomerIds) \X [CustomerIds -> ZipPrefixes] }

GeolocationFrames ==
    { [i \in DOMAIN Ascending(S) |-> Geolocation(Ascending(S)[i])] : S \in SUBSET ZipPrefixes }

Combine(l, r) == [c \in DOMAIN l \cup DOMAIN r |-> IF c \in DOMAIN l THEN l[c] ELSE r[c]]
Project(row, cols) == [c \in cols |-> row[c]]
Rename(row, old, new) ==
    [c \in (DOMAIN row \ {old}) \cup {new} |-> IF c = new THEN row[old] ELSE row[c]]

(* pd.merge(left, right, left_on=, right_on=, how=): the rows of left in   *)
(* order, each with every row of right of the same key; with how = "left"  *)
(* a row without a match is kept, the columns of right null.               *)
RECURSIVE merge(_, _, _, _, _, _)
merge(left, right, right_columns, left_on, right_on, how) ==
    IF left = <<>> THEN <<>>
    ELSE LET l == Head(left)
             matches == SelectSeq(right, LAMBDA r : r[right_on] = l[left_on])
             rows == IF matches # <<>>
                     THEN [i \in DOMAIN matches |-> Combine(l, matches[i])]
                     ELSE IF how = "left"
                          THEN <<Combine(l, [c \in right_columns |-> None])>>
                          ELSE <<>>
         IN  rows \o merge(Tail(left), right, right_columns, left_on, right_on, how)

(* A variant that leaves the freight out of the price of a line *)
total_price_NoFreight(row) == row.price

(* line 155: NaN if either operand is *)
total_price(row) ==
    IF row.price = None \/ row.freight_value = None THEN None
    ELSE Some(row.price[1] + row.freight_value[1])

(* sum of a column over the rows, NaN skipped *)
RECURSIVE sum(_, _)
sum(frame, col) ==
    IF frame = <<>> THEN 0
    ELSE (IF Head(frame)[col] = None THEN 0 ELSE Head(frame)[col][1]) + sum(Tail(frame), col)

GroupColumns ==
    <<"order_id", "seller_id", "customer_id", "order_purchase_timestamp",
      "order_delivered_customer_date">>

GroupKey(row) == [i \in DOMAIN GroupColumns |-> row[GroupColumns[i]]]

KeyBefore(a, b) ==
    \E i \in DOMAIN a : a[i][1] < b[i][1] /\ \A j \in 1..(i - 1) : a[j] = b[j]

RECURSIVE SortedKeys(_)
SortedKeys(keys) ==
    IF keys = {} THEN <<>>
    ELSE LET first == CHOOSE k \in keys : \A other \in keys \ {k} : KeyBefore(k, other)
         IN  <<first>> \o SortedKeys(keys \ {first})

(* lines 157-160: groupby(GroupColumns, as_index=False).agg(sum): a row    *)
(* for each key that occurs, in key order; rows with a null key are left   *)
(* out.                                                                    *)
groupby_sum(frame) ==
    LET keyed == dropna(frame, Range(GroupColumns))
        keys  == SortedKeys({GroupKey(keyed[i]) : i \in DOMAIN keyed})
    IN  [g \in DOMAIN keys |->
            Combine([c \in Range(GroupColumns) |->
                        keys[g][CHOOSE i \in DOMAIN GroupColumns : GroupColumns[i] = c]],
                    [total_order_value |->
                        Some(sum(SelectSeq(keyed, LAMBDA row : GroupKey(row) = keys[g]),
                                 "total_price"))])]

required_cols ==
    {"order_id", "seller_id", "order_purchase_timestamp", "order_delivered_customer_date",
     "total_order_value", "delivery_location_latitude", "delivery_location_longitude"}

join_olist_data(items, order_frame, geo, customer_frame) ==
    LET orders_items == merge(items, order_frame, OrderColumns, "order_id", "order_id", "inner")
        priced == [i \in DOMAIN orders_items |->
                      Combine(orders_items[i], [total_price |-> total_price(orders_items[i])])]
        order_agg == groupby_sum(priced)
        with_zip == merge(order_agg, customer_frame, CustomerColumns,
                          "customer_id", "customer_id", "left")
        with_geo == merge(with_zip, geo, GeolocationColumns,
                          "customer_zip_code_prefix", "geolocation_zip_code_prefix", "left")
        result == [i \in DOMAIN with_geo |->
                      Rename(Rename(with_geo[i], "geolocation_lat", "delivery_location_latitude"),
                             "geolocation_lng", "delivery_location_longitude")]
        kept == dropna(result, required_cols)
    IN  [i \in DOMAIN kept |-> Project(kept[i], required_cols)]

JoinOlistData ==
    /\ jpc = "call"
    /\ joined' = join_olist_data(order_items, orders, geo_processed, customers)
    /\ jpc' = "returned"
    /\ UNCHANGED <<order_items, orders, customers, geo_processed,
                   weatherVars, marketVars, enrichVars>>

JoinNext == JoinOlistData

(* join_olist_data called on any cleaned frames of the sizes above *)
InitJoin ==
    /\ order_items \in OrderItemFrames
    /\ orders \in OrderFrames
    /\ customers \in CustomerFrames
    /\ geo_processed \in GeolocationFrames
    /\ joined = <<>>
    /\ jpc = "call"
    /\ WeatherIdle /\ MarketIdle /\ EnrichIdle

SpecJoin == InitJoin /\ [][JoinNext]_vars

----------------------------------------------------------------------------
(* Properties of join_olist_data *)

LinesOf(o, s) ==
    {i \in DOMAIN order_items : order_items[i].order_id = <<o>> /\ order_items[i].seller_id = <<s>>}

OrderRows(o) == {i \in DOMAIN orders : orders[i].order_id = <<o>>}
CustomerRows(c) == {i \in DOMAIN customers : customers[i].customer_id = c}
GeoRows(z) == {i \in DOMAIN geo_processed : geo_processed[i].geolocation_zip_code_prefix = z}

(* the coordinate an order is delivered to, if its customer and zip prefix resolve *)
Deliverable(o) ==
    \E i \in OrderRows(o) :
        \E j \in CustomerRows(orders[i].customer_id) :
            GeoRows(customers[j].customer_zip_code_prefix) # {}

RECURSIVE LineTotal(_)
LineTotal(lines) ==
    IF lines = {} THEN 0
    ELSE LET i == CHOOSE i \in lines : TRUE
         IN  order_items[i].price[1] + order_items[i].freight_value[1] + LineTotal(lines \ {i})

RowsFor(o, s) ==
    {i \in DOMAIN joined : joined[i].order_id = <<o>> /\ joined[i].seller_id = <<s>>}

====
